---- MODULE Spec2Model ----
(***************************************************************************)
(* Record store: the catalog (RecordService), the order fulfilment         *)
(* (OrderService) and the MusicBrainz enrichment, over the two MongoDB     *)
(* collections they share.  Every request is one process; every `await`    *)
(* on the database or on the network is one atomic step, and the steps of  *)
(* concurrent requests interleave freely.                                  *)
(***************************************************************************)
EXTENDS Integers, Sequences, FiniteSets, TLC

\* ---------------------------------------------------------------- bounds
MaxRequests == 3     \* requests a behaviour serves in all
MaxStock == 2        \* the qty of a record created in stock

\* the request slots: two requests are in flight at the same time at most
Procs == {1, 2}
\* the identifiers the store can hand out: one per request at most
RecordIds == 1..MaxRequests

\* ------------------------------------------------------- request domains
None == "none"
Artists == {"A1", "A2"}

NoRecord == [live |-> FALSE]
NoRequest == [none |-> TRUE]
NoData == [none |-> TRUE]
NoResult == [kind |-> "none"]

\* ------------------------------------------------ MusicBrainz enrichment
\* What the outbound GET can come back with.  A track is the title of its
\* recording, or BadTrack when track.recording[0].title[0] cannot be read.
BadTrack == "?"
FailedResponses ==
    { [kind |-> k] : k \in {"networkError", "timeout", "httpError",
                            "emptyBody", "malformed", "noMetadata", "noRelease"} }
DocFull ==
    [kind |-> "doc", title |-> "B2", creditName |-> "A2", creditArtist |-> None,
     date |-> "1969", depth |-> 3, tracks |-> <<"T1", BadTrack>>]
\* the responses the catalog requests of Spec draw from: every failure, and
\* the full document
StoreResponses == FailedResponses \cup {DocFull}

TrackTitle(track) == IF track = BadTrack THEN "Unknown Track" ELSE track

ExtractTracks(tracks) == [i \in 1..Len(tracks) |-> TrackTitle(tracks[i])]

ExtractArtist(release) ==
    IF release.creditName # None THEN release.creditName
    ELSE release.creditArtist

fetchMusicBrainzData_rethrow(response) ==
    IF response.kind = "timeout"
    THEN [thrown |-> "timeout"]
    ELSE IF response.kind # "doc"
    THEN [tracklist |-> <<>>, artist |-> None, album |-> None, releaseDate |-> None]
    ELSE [tracklist |-> IF response.depth < 3 THEN <<>> ELSE ExtractTracks(response.tracks),
          artist |-> ExtractArtist(response),
          album |-> response.title,
          releaseDate |-> response.date]

fetchMusicBrainzData(response) ==
    IF response.kind \in {"networkError", "timeout", "httpError", "malformed"}
    THEN [tracklist |-> <<>>, artist |-> None, album |-> None, releaseDate |-> None]
    ELSE IF response.kind \in {"emptyBody", "noMetadata", "noRelease"}
    THEN [tracklist |-> <<>>, artist |-> None, album |-> None, releaseDate |-> None]
    ELSE [tracklist |-> IF response.depth < 3 THEN <<>> ELSE ExtractTracks(response.tracks),
          artist |-> ExtractArtist(response),
          album |-> response.title,
          releaseDate |-> response.date]

EnrichmentFailed(response) == response.kind # "doc"


\* ----------------------------------------------------------------- state
VARIABLES
    records,       \* the records collection: identifier -> document, or NoRecord
    orders,        \* the orders collection, in insertion order
    nextRecordId,  \* the next identifier the store assigns to a record
    pc,            \* per request: the await it is suspended at
    op,            \* per request: the service method it runs
    req,           \* per request: its input (identifier and DTO)
    rec,           \* per request: the document its first findById returned
    mb,            \* per request: the mbData local
    totalPrice,    \* per request: the totalPrice local of OrderService.create
    order,         \* per request: the order local of OrderService.create
    res,           \* per request: the value returned or the exception thrown
    started,       \* history: the number of requests served so far
    solo,          \* history: no other request ran or began since this one began
    pre,           \* history: the number of orders when this request began
    enrich,        \* history: outcome of this request's enrichment call
    ledger         \* history: per record, its qty when created and whether
                   \* a catalog update has written it since

vars == <<records, orders, nextRecordId, pc, op, req, rec, mb, totalPrice,
          order, res, started, solo, pre, enrich, ledger>>

store == <<records, orders, nextRecordId>>
locals == <<rec, mb, totalPrice, order, enrich>>

Init ==
    /\ records = [id \in RecordIds |-> NoRecord]
    /\ orders = <<>>
    /\ nextRecordId = 1
    /\ pc = [p \in Procs |-> "idle"]
    /\ op = [p \in Procs |-> "none"]
    /\ req = [p \in Procs |-> NoRequest]
    /\ rec = [p \in Procs |-> NoRecord]
    /\ mb = [p \in Procs |-> NoData]
    /\ totalPrice = [p \in Procs |-> 0]
    /\ order = [p \in Procs |-> NoData]
    /\ res = [p \in Procs |-> NoResult]
    /\ started = 0
    /\ solo = [p \in Procs |-> FALSE]
    /\ pre = [p \in Procs |-> 0]
    /\ enrich = [p \in Procs |-> "none"]
    /\ ledger = [id \in RecordIds |-> [qty |-> 0, updated |-> FALSE]]

\* ------------------------------------------------------ storage layer
Live(id) == id \in RecordIds /\ records[id].live

findById(id) == IF Live(id) THEN records[id] ELSE NoRecord

\* findOne({artist, album, format}) with an optional _id: {$ne: except}
findOneTriple(artist, album, format, except) ==
    { id \in RecordIds : /\ records[id].live
                         /\ id # except
                         /\ records[id].artist = artist
                         /\ records[id].album = album
                         /\ records[id].format = format }

\* RecordSchema.index({artist, album, format}, {unique: true}): the write of
\* `doc` under identifier `id` is rejected when another document holds the triple.
UniqueIndexRejects_none(id, doc) == FALSE

UniqueIndexRejects(id, doc) ==
    findOneTriple(doc.artist, doc.album, doc.format, id) # {}

\* new Date(): the wall clock, which ticks as requests arrive
Now == started

\* the $set of findByIdAndUpdate: the given fields replace the stored ones
ApplySet(doc, updates) ==
    [f \in DOMAIN doc |-> IF f \in DOMAIN updates THEN updates[f] ELSE doc[f]]

\* the $inc of findByIdAndUpdate
ApplyInc(doc, delta) == [doc EXCEPT !.qty = doc.qty + delta]

\* ------------------------------------------------------ request frame
Running(p) == pc[p] \notin {"idle", "done"}

\* A request arrives and takes the first free slot p: method m, input r.
Begin(p, m, r) ==
    /\ ~Running(p)
    /\ \A q \in Procs : q < p => Running(q)
    /\ started < MaxRequests
    /\ started' = started + 1
    /\ op' = [op EXCEPT ![p] = m]
    /\ req' = [req EXCEPT ![p] = r]
    /\ solo' = [q \in Procs |-> q = p /\ \A o \in Procs \ {p} : ~Running(o)]
    /\ pre' = [pre EXCEPT ![p] = Len(orders)]

Frame == UNCHANGED <<op, req, started, solo, pre>>

\* the record `id` has been written by the catalog: created with qty, or updated
Created(id, qty) == ledger' = [ledger EXCEPT ![id] = [qty |-> qty, updated |-> FALSE]]
Updated(id) == ledger' = [ledger EXCEPT ![id].updated = TRUE]

\* the request of p ends with result r
Finish(p, r) ==
    /\ pc' = [pc EXCEPT ![p] = "done"]
    /\ res' = [res EXCEPT ![p] = r]

Goto(p, label) ==
    /\ pc' = [pc EXCEPT ![p] = label]
    /\ res' = [res EXCEPT ![p] = NoResult]

ClearLocals(p) ==
    /\ mb' = [mb EXCEPT ![p] = NoData]
    /\ totalPrice' = [totalPrice EXCEPT ![p] = 0]
    /\ order' = [order EXCEPT ![p] = NoData]
    /\ enrich' = [enrich EXCEPT ![p] = "none"]

Ok(value) == [kind |-> "ok", value |-> value]
NotFoundException(message) == [kind |-> "NotFoundException", message |-> message]
BadRequestException(message) == [kind |-> "BadRequestException", message |-> message]
\* the driver's E11000 duplicate key error, thrown by a rejected write
MongoServerError == [kind |-> "MongoServerError", message |-> "E11000"]
\* reading a property of null
TypeError == [kind |-> "TypeError", message |-> "null"]


\* --------------------------------------------------------- OrderService
\* the identifiers requests name: those handed out so far, and the next one
\* as the identifier that matches nothing
RequestIds == { id \in RecordIds : id <= nextRecordId }

Quantities == {1, 2}
CreateOrderDtos ==
    [recordId : RequestIds, quantity : Quantities, customerName : {"Sam Ru"},
     customerEmail : {"samru@gmail.com"}, shippingAddress : {"123 Main St"}]

InsufficientStock_le(record, dto) == record.qty <= dto.quantity

InsufficientStock(record, dto) == record.qty < dto.quantity

RecordNotFound_generic(id) == NotFoundException(<<"Record", "not found">>)

RecordNotFound(id) == NotFoundException(<<"Record with ID", id, "not found">>)

TotalPrice(record, dto) == record.price * dto.quantity

NewOrder_reread(p, t) ==
    [id |-> Len(orders) + 1,
     recordId |-> req[p].recordId,
     quantity |-> req[p].quantity,
     totalPrice |-> (IF Live(req[p].recordId) THEN records[req[p].recordId].price
                     ELSE rec[p].price) * req[p].quantity,
     orderDate |-> t,
     customerName |-> req[p].customerName,
     customerEmail |-> req[p].customerEmail,
     shippingAddress |-> req[p].shippingAddress]

\* the document orderModel.create stores for the request of p at time t
NewOrder(p, t) ==
    [id |-> Len(orders) + 1,
     recordId |-> req[p].recordId,
     quantity |-> req[p].quantity,
     totalPrice |-> totalPrice[p],
     orderDate |-> t,
     customerName |-> req[p].customerName,
     customerEmail |-> req[p].customerEmail,
     shippingAddress |-> req[p].shippingAddress]

StockWrite_touch(p, doc) ==
    [doc EXCEPT !.qty = doc.qty - req[p].quantity, !.lastModified = Now]

StockWrite_overwrite(p, doc) == [doc EXCEPT !.qty = rec[p].qty - req[p].quantity]

\* the stock write of the request of p, applied to the stored document
StockWrite(p, doc) == ApplyInc(doc, 0 - req[p].quantity)

\* create, up to its first await: findById, the two checks, totalPrice
OrderCreate(p, dto) ==
    /\ Begin(p, "OrderService.create", dto)
    /\ LET record == findById(dto.recordId) IN
        /\ rec' = [rec EXCEPT ![p] = record]
        /\ mb' = [mb EXCEPT ![p] = NoData]
        /\ enrich' = [enrich EXCEPT ![p] = "none"]
        /\ order' = [order EXCEPT ![p] = NoData]
        /\ IF ~record.live
           THEN /\ Finish(p, RecordNotFound(dto.recordId))
                /\ totalPrice' = [totalPrice EXCEPT ![p] = 0]
           ELSE IF InsufficientStock(record, dto)
           THEN /\ Finish(p, BadRequestException("Insufficient stock"))
                /\ totalPrice' = [totalPrice EXCEPT ![p] = 0]
           ELSE /\ Goto(p, "order.insert")
                /\ totalPrice' = [totalPrice EXCEPT ![p] = TotalPrice(record, dto)]
    /\ UNCHANGED <<store, ledger>>

OrderInsert_decrementFirst(p) ==
    /\ pc[p] = "order.insert"
    /\ records' = IF Live(req[p].recordId)
                  THEN [records EXCEPT ![req[p].recordId] = StockWrite(p, @)]
                  ELSE records
    /\ order' = [order EXCEPT ![p] = NewOrder(p, Now)]
    /\ Goto(p, "order.decrement")
    /\ Frame
    /\ UNCHANGED <<orders, nextRecordId, rec, mb, totalPrice, enrich, ledger>>

\* await this.orderModel.create({...createOrderDto, totalPrice, orderDate})
OrderInsert(p) ==
    /\ pc[p] = "order.insert"
    /\ orders' = Append(orders, NewOrder(p, Now))
    /\ order' = [order EXCEPT ![p] = NewOrder(p, Now)]
    /\ Goto(p, "order.decrement")
    /\ Frame
    /\ UNCHANGED <<records, nextRecordId, rec, mb, totalPrice, enrich, ledger>>

\* await this.recordModel.findByIdAndUpdate(recordId, {$inc: {qty: -quantity}})
\* and the return; a missing record makes the update a no-op
OrderDecrement(p) ==
    /\ pc[p] = "order.decrement"
    /\ records' = IF Live(req[p].recordId)
                  THEN [records EXCEPT ![req[p].recordId] = StockWrite(p, @)]
                  ELSE records
    /\ Finish(p, Ok(order[p]))
    /\ Frame
    /\ UNCHANGED <<orders, nextRecordId, locals, ledger>>


\* -------------------------------------------------------- RecordService
\* the create requests served: either artist, as a plain record in stock or
\* as a dearer one out of stock that carries an external identifier
CreateRecordDtos ==
    { [artist |-> a, album |-> "B1", price |-> v.price, qty |-> v.qty,
       format |-> "Vinyl", category |-> "Rock", mbid |-> v.mbid] :
        a \in Artists,
        v \in { [price |-> 2, qty |-> MaxStock, mbid |-> None],
                [price |-> 3, qty |-> 0, mbid |-> "m1"] } }

\* the update requests served.  A partial input: only the fields the request
\* carries are in its domain
UpdateRecordDtos ==
    { [artist |-> "A2"], [price |-> 3], [qty |-> MaxStock],
      [mbid |-> "m2"], [artist |-> "A1", mbid |-> "m2"] }

Has(dto, f) == f \in DOMAIN dto

CreateRecordData_override(p) ==
    LET dto == req[p]
        fetched == mb[p] # NoData
    IN [artist |-> IF fetched /\ mb[p].artist # None THEN mb[p].artist ELSE dto.artist,
        album |-> IF fetched /\ mb[p].album # None THEN mb[p].album ELSE dto.album,
        price |-> dto.price,
        qty |-> dto.qty,
        format |-> dto.format,
        category |-> dto.category,
        mbid |-> dto.mbid,
        tracklist |-> IF fetched THEN mb[p].tracklist ELSE <<>>]

\* recordData of create: the DTO, the track list, and artist/album from
\* MusicBrainz where the DTO has none
CreateRecordData(p) ==
    LET dto == req[p]
        fetched == mb[p] # NoData
    IN [artist |-> IF dto.artist = None /\ fetched /\ mb[p].artist # None
                   THEN mb[p].artist ELSE dto.artist,
        album |-> IF dto.album = None /\ fetched /\ mb[p].album # None
                  THEN mb[p].album ELSE dto.album,
        price |-> dto.price,
        qty |-> dto.qty,
        format |-> dto.format,
        category |-> dto.category,
        mbid |-> dto.mbid,
        tracklist |-> IF fetched THEN mb[p].tracklist ELSE <<>>]

\* the document new this.recordModel({...recordData, created, lastModified}) saves
NewRecord(p, t) ==
    LET data == CreateRecordData(p)
    IN [live |-> TRUE, id |-> nextRecordId,
        artist |-> data.artist, album |-> data.album, price |-> data.price,
        qty |-> data.qty, format |-> data.format, category |-> data.category,
        mbid |-> data.mbid, tracklist |-> data.tracklist,
        created |-> t, lastModified |-> t]

DuplicateExists_exact(dto) ==
    \E id \in findOneTriple(dto.artist, dto.album, dto.format, 0) :
        records[id].price = dto.price

\* existingRecord of create: findOne({artist, album, format}) found a record
DuplicateExists(dto) == findOneTriple(dto.artist, dto.album, dto.format, 0) # {}

\* create, up to its first await: the duplicate pre-check
RecordCreate(p, dto) ==
    /\ Begin(p, "RecordService.create", dto)
    /\ rec' = [rec EXCEPT ![p] = NoRecord]
    /\ ClearLocals(p)
    /\ IF DuplicateExists(dto)
       THEN Finish(p, BadRequestException("Record already exists"))
       ELSE IF dto.mbid # None
       THEN Goto(p, "create.fetch")
       ELSE Goto(p, "create.save")
    /\ UNCHANGED <<store, ledger>>

CreateFetch_propagate(p) ==
    /\ pc[p] = "create.fetch"
    /\ \E response \in StoreResponses :
        /\ mb' = [mb EXCEPT ![p] = fetchMusicBrainzData(response)]
        /\ enrich' = [enrich EXCEPT ![p] =
                         IF EnrichmentFailed(response) THEN "failed" ELSE "fetched"]
        /\ IF response.kind = "timeout"
           THEN Finish(p, [kind |-> "Error", message |-> "timeout"])
           ELSE Goto(p, "create.save")
    /\ Frame
    /\ UNCHANGED <<store, rec, totalPrice, order, ledger>>

\* const mbData = await this.fetchMusicBrainzData(createRecordDto.mbid)
CreateFetch(p) ==
    /\ pc[p] = "create.fetch"
    /\ \E response \in StoreResponses :
        /\ mb' = [mb EXCEPT ![p] = fetchMusicBrainzData(response)]
        /\ enrich' = [enrich EXCEPT ![p] =
                         IF EnrichmentFailed(response) THEN "failed" ELSE "fetched"]
    /\ Goto(p, "create.save")
    /\ Frame
    /\ UNCHANGED <<store, rec, totalPrice, order, ledger>>

CreateSave_unchecked(p) ==
    /\ pc[p] = "create.save"
    /\ records' = [records EXCEPT ![nextRecordId] = NewRecord(p, Now)]
    /\ nextRecordId' = nextRecordId + 1
    /\ Created(nextRecordId, NewRecord(p, Now).qty)
    /\ Finish(p, Ok(NewRecord(p, Now)))
    /\ Frame
    /\ UNCHANGED <<orders, locals>>

\* const savedRecord = await record.save(), and the return
CreateSave(p) ==
    /\ pc[p] = "create.save"
    /\ IF UniqueIndexRejects(nextRecordId, NewRecord(p, Now))
       THEN /\ Finish(p, MongoServerError)
            /\ UNCHANGED <<records, nextRecordId, ledger>>
       ELSE /\ records' = [records EXCEPT ![nextRecordId] = NewRecord(p, Now)]
            /\ nextRecordId' = nextRecordId + 1
            /\ Created(nextRecordId, NewRecord(p, Now).qty)
            /\ Finish(p, Ok(NewRecord(p, Now)))
    /\ Frame
    /\ UNCHANGED <<orders, locals>>

EffectiveTriple_stored(dto, record) ==
    [artist |-> record.artist, album |-> record.album, format |-> record.format]

\* the triple update checks: input values, stored values for omitted fields
EffectiveTriple(dto, record) ==
    [artist |-> IF Has(dto, "artist") THEN dto.artist ELSE record.artist,
     album |-> IF Has(dto, "album") THEN dto.album ELSE record.album,
     format |-> IF Has(dto, "format") THEN dto.format ELSE record.format]

TouchesTriple(dto) == Has(dto, "artist") \/ Has(dto, "album") \/ Has(dto, "format")

MbidChanged_given(dto, record) == Has(dto, "mbid")

MbidChanged(dto, record) == Has(dto, "mbid") /\ dto.mbid # record.mbid

RecordUpdates_keep(p, t) ==
    LET dto == req[p].dto
        fetched == mb[p] # NoData
        fromMb == { f \in {"artist", "album"} :
                      fetched /\ ~Has(dto, f) /\ mb[p][f] # None }
    IN [f \in DOMAIN dto \cup fromMb \cup {"tracklist", "lastModified"} |->
          IF f = "lastModified" THEN t
          ELSE IF f = "tracklist"
          THEN (IF fetched /\ enrich[p] # "failed" THEN mb[p].tracklist
                ELSE rec[p].tracklist)
          ELSE IF f \in fromMb THEN mb[p][f]
          ELSE dto[f]]

\* recordUpdates of update, as handed to findByIdAndUpdate at time t
RecordUpdates(p, t) ==
    LET dto == req[p].dto
        fetched == mb[p] # NoData
        fromMb == { f \in {"artist", "album"} :
                      fetched /\ ~Has(dto, f) /\ mb[p][f] # None }
    IN [f \in DOMAIN dto \cup fromMb \cup {"tracklist", "lastModified"} |->
          IF f = "lastModified" THEN t
          ELSE IF f = "tracklist"
          THEN (IF fetched THEN mb[p].tracklist ELSE rec[p].tracklist)
          ELSE IF f \in fromMb THEN mb[p][f]
          ELSE dto[f]]

AfterCheck(dto, record) ==
    IF MbidChanged(dto, record) THEN "update.fetch" ELSE "update.write"

\* update, up to its first await: findById
RecordUpdate(p, id, dto) ==
    /\ Begin(p, "RecordService.update", [id |-> id, dto |-> dto])
    /\ LET record == findById(id) IN
        /\ rec' = [rec EXCEPT ![p] = record]
        /\ IF ~record.live
           THEN Finish(p, NotFoundException("Record not found"))
           ELSE IF TouchesTriple(dto)
           THEN Goto(p, "update.check")
           ELSE Goto(p, AfterCheck(dto, record))
    /\ ClearLocals(p)
    /\ UNCHANGED <<store, ledger>>

\* const existingRecord = await this.recordModel.findOne({_id: {$ne: id}, ...})
UpdateCheck(p) ==
    /\ pc[p] = "update.check"
    /\ LET triple == EffectiveTriple(req[p].dto, rec[p]) IN
        IF findOneTriple(triple.artist, triple.album, triple.format, req[p].id) # {}
        THEN Finish(p, BadRequestException(
                 <<"A record with", triple.artist, triple.album, triple.format,
                   "already exists">>))
        ELSE Goto(p, AfterCheck(req[p].dto, rec[p]))
    /\ Frame
    /\ UNCHANGED <<store, locals, ledger>>

\* const mbData = await this.fetchMusicBrainzData(updateRecordDto.mbid)
UpdateFetch(p) ==
    /\ pc[p] = "update.fetch"
    /\ \E response \in StoreResponses :
        /\ mb' = [mb EXCEPT ![p] = fetchMusicBrainzData(response)]
        /\ enrich' = [enrich EXCEPT ![p] =
                         IF EnrichmentFailed(response) THEN "failed" ELSE "fetched"]
    /\ Goto(p, "update.write")
    /\ Frame
    /\ UNCHANGED <<store, rec, totalPrice, order, ledger>>

\* await this.recordModel.findByIdAndUpdate(id, {...recordUpdates, lastModified},
\* {new: true}) and toResponseDto of what it returns (null for a missing record)
UpdateWrite(p) ==
    /\ pc[p] = "update.write"
    /\ IF ~Live(req[p].id)
       THEN /\ Finish(p, TypeError)
            /\ UNCHANGED <<records, ledger>>
       ELSE LET updated == ApplySet(records[req[p].id], RecordUpdates(p, Now)) IN
            IF UniqueIndexRejects(req[p].id, updated)
            THEN /\ Finish(p, MongoServerError)
                 /\ UNCHANGED <<records, ledger>>
            ELSE /\ records' = [records EXCEPT ![req[p].id] = updated]
                 /\ Updated(req[p].id)
                 /\ Finish(p, Ok(updated))
    /\ Frame
    /\ UNCHANGED <<orders, nextRecordId, locals>>

RecordDelete_again(p, id) ==
    /\ Begin(p, "RecordService.delete", [id |-> id])
    /\ IF id < nextRecordId
       THEN /\ records' = [records EXCEPT ![id] = NoRecord]
            /\ Finish(p, Ok(None))
       ELSE /\ UNCHANGED records
            /\ Finish(p, NotFoundException("Record not found"))
    /\ rec' = [rec EXCEPT ![p] = NoRecord]
    /\ ClearLocals(p)
    /\ UNCHANGED <<orders, nextRecordId, ledger>>

RecordDelete_silent(p, id) ==
    /\ Begin(p, "RecordService.delete", [id |-> id])
    /\ records' = [records EXCEPT ![id] = NoRecord]
    /\ Finish(p, Ok(None))
    /\ rec' = [rec EXCEPT ![p] = NoRecord]
    /\ ClearLocals(p)
    /\ UNCHANGED <<orders, nextRecordId, ledger>>

RecordDelete_cascade(p, id) ==
    /\ Begin(p, "RecordService.delete", [id |-> id])
    /\ IF Live(id)
       THEN /\ records' = [records EXCEPT ![id] = NoRecord]
            /\ orders' = SelectSeq(orders, LAMBDA o : o.recordId # id)
            /\ Finish(p, Ok(None))
       ELSE /\ UNCHANGED <<records, orders>>
            /\ Finish(p, NotFoundException("Record not found"))
    /\ rec' = [rec EXCEPT ![p] = NoRecord]
    /\ ClearLocals(p)
    /\ UNCHANGED <<nextRecordId, ledger>>

\* const result = await this.recordModel.deleteOne({_id: id})
RecordDelete(p, id) ==
    /\ Begin(p, "RecordService.delete", [id |-> id])
    /\ IF Live(id)
       THEN /\ records' = [records EXCEPT ![id] = NoRecord]
            /\ Finish(p, Ok(None))
       ELSE /\ UNCHANGED records
            /\ Finish(p, NotFoundException("Record not found"))
    /\ rec' = [rec EXCEPT ![p] = NoRecord]
    /\ ClearLocals(p)
    /\ UNCHANGED <<orders, nextRecordId, ledger>>

\* const record = await this.recordModel.findById(id), and the return
RecordFindById(p, id) ==
    /\ Begin(p, "RecordService.findById", [id |-> id])
    /\ IF findById(id).live
       THEN Finish(p, Ok(findById(id)))
       ELSE Finish(p, NotFoundException("Record not found"))
    /\ rec' = [rec EXCEPT ![p] = NoRecord]
    /\ ClearLocals(p)
    /\ UNCHANGED <<store, ledger>>

\* -------------------------------------------- OrderService: the lookups
\* the order identifiers requests name: those of the persisted orders, and
\* the next one as the identifier that matches nothing
OrderRequestIds == 1..(Len(orders) + 1)

\* OrderService.findById: const order = await this.orderModel.findById(id)
OrderFindById(p, id) ==
    /\ Begin(p, "OrderService.findById", [id |-> id])
    /\ IF id \in DOMAIN orders
       THEN Finish(p, Ok(orders[id]))
       ELSE Finish(p, NotFoundException("Order not found"))
    /\ rec' = [rec EXCEPT ![p] = NoRecord]
    /\ ClearLocals(p)
    /\ UNCHANGED <<store, ledger>>

\* ------------------------------------------- the enrichment on its own
\* testMusicBrainzIntegration(mbid): the fetch, and its result as a report;
\* a fetch that throws is reported with success false
Thrown(data) == "thrown" \in DOMAIN data

TestReport(mbid, data) ==
    IF Thrown(data)
    THEN [success |-> FALSE, mbid |-> mbid, artist |-> None, album |-> None,
          releaseDate |-> None, tracks |-> <<>>, count |-> 0]
    ELSE [success |-> TRUE, mbid |-> mbid, artist |-> data.artist,
          album |-> data.album, releaseDate |-> data.releaseDate,
          tracks |-> data.tracklist, count |-> Len(data.tracklist)]

TestMusicBrainz(p, mbid, response) ==
    /\ Begin(p, "RecordService.testMusicBrainzIntegration",
             [mbid |-> mbid, response |-> response])
    /\ mb' = [mb EXCEPT ![p] = fetchMusicBrainzData(response)]
    /\ enrich' = [enrich EXCEPT ![p] =
                     IF EnrichmentFailed(response) THEN "failed" ELSE "fetched"]
    /\ Finish(p, Ok(TestReport(mbid, fetchMusicBrainzData(response))))
    /\ rec' = [rec EXCEPT ![p] = NoRecord]
    /\ totalPrice' = [totalPrice EXCEPT ![p] = 0]
    /\ order' = [order EXCEPT ![p] = NoData]
    /\ UNCHANGED <<store, ledger>>

\* ------------------------------------------------------------- listings
\* A query parameter arrives as text or not at all.  Num(n) is the numeral
\* of the integer n, Text(s) a text that is no numeral.  A JavaScript number
\* is Num(n), NaN or Infinity.
Missing == [missing |-> TRUE]
Num(n) == [num |-> n]
Text(s) == [text |-> s]
NaN == [nan |-> TRUE]
Infinity == [infinity |-> TRUE]

IsNum(v) == DOMAIN v = {"num"}

\* the default of a destructured parameter: used when the parameter is undefined
OrDefault(v, d) == IF v = Missing THEN Num(d) ELSE v

\* Number(v), and the coercion the arithmetic operators apply to a text
Number(v) == IF IsNum(v) THEN v ELSE NaN

MathMax(a, b) ==
    IF ~IsNum(a) \/ ~IsNum(b) THEN NaN ELSE IF a.num >= b.num THEN a ELSE b

MathMin(a, b) ==
    IF ~IsNum(a) \/ ~IsNum(b) THEN NaN ELSE IF a.num <= b.num THEN a ELSE b

\* a - b and a * b
Minus(a, b) ==
    IF ~IsNum(Number(a)) \/ ~IsNum(Number(b)) THEN NaN ELSE Num(a.num - b.num)

Times(a, b) ==
    IF ~IsNum(Number(a)) \/ ~IsNum(Number(b)) THEN NaN ELSE Num(a.num * b.num)

\* Math.ceil(total / limit) for a count total >= 0
CeilDiv(total, limit) ==
    IF ~IsNum(Number(limit)) THEN NaN
    ELSE IF limit.num = 0 THEN (IF total = 0 THEN NaN ELSE Infinity)
    ELSE IF limit.num > 0 THEN Num((total + limit.num - 1) \div limit.num)
    ELSE Num(0 - (total \div (0 - limit.num)))

\* sort({[sortBy]: direction}): the documents doc[id], id in ids, by the value
\* of their field sortBy.  A document without the field sorts as null, and
\* documents with equal values keep the order of their identifiers.
SortKey(d, sortBy) == IF sortBy \in DOMAIN d THEN d[sortBy] ELSE 0

SortDirection(sortOrder) == IF sortOrder = "desc" THEN 0 - 1 ELSE 1

Sorted_unstable(ids, doc, sortBy, direction) ==
    LET Before(i, j) ==
            \/ direction * SortKey(doc[i], sortBy) < direction * SortKey(doc[j], sortBy)
            \/ /\ SortKey(doc[i], sortBy) = SortKey(doc[j], sortBy)
               /\ IF Now % 2 = 0 THEN i < j ELSE j < i
        Rank(j) == Cardinality({ i \in ids : Before(i, j) }) + 1
    IN [n \in 1..Cardinality(ids) |-> doc[CHOOSE j \in ids : Rank(j) = n]]

Sorted_known(ids, doc, sortBy, direction) ==
    LET known == { i \in ids : sortBy \in DOMAIN doc[i] }
        Before(i, j) ==
            \/ direction * SortKey(doc[i], sortBy) < direction * SortKey(doc[j], sortBy)
            \/ SortKey(doc[i], sortBy) = SortKey(doc[j], sortBy) /\ i < j
        Rank(j) == Cardinality({ i \in known : Before(i, j) }) + 1
    IN [n \in 1..Cardinality(known) |-> doc[CHOOSE j \in known : Rank(j) = n]]

Sorted(ids, doc, sortBy, direction) ==
    LET Before(i, j) ==
            \/ direction * SortKey(doc[i], sortBy) < direction * SortKey(doc[j], sortBy)
            \/ SortKey(doc[i], sortBy) = SortKey(doc[j], sortBy) /\ i < j
        Rank(j) == Cardinality({ i \in ids : Before(i, j) }) + 1
    IN [n \in 1..Cardinality(ids) |-> doc[CHOOSE j \in ids : Rank(j) = n]]

\* skip(skip).limit(limit) on a sorted result.  The store turns down a skip
\* that is negative and a skip or limit that is no integer; limit 0 is no
\* limit, and a negative limit is the limit of its absolute value.
CursorRejects(skip, limit) ==
    \/ ~IsNum(Number(skip)) \/ ~IsNum(Number(limit))
    \/ skip.num < 0

Window(list, skip, limit) ==
    LET size == IF limit.num = 0 THEN Len(list)
                ELSE IF limit.num < 0 THEN 0 - limit.num ELSE limit.num
        last == IF skip.num + size < Len(list) THEN skip.num + size ELSE Len(list)
    IN SubSeq(list, skip.num + 1, last)

\* the driver's error for a query the store turns down
QueryError == [kind |-> "MongoServerError", message |-> "query"]

\* the defaults of page and limit, and the cap of the order listing's limit
DefaultPage == 1
DefaultLimit == 10
MaxPageSize == 100

\* new RegExp(pattern, 'i') matches text: pattern occurs in text, letter case
\* aside.  The texts are those of the listing's records.
LowerCase(s) ==
    CASE s = "A1" -> "a1" [] s = "A2" -> "a2" [] s = "A" -> "a"
      [] s = "B1" -> "b1" [] s = "B2" -> "b2" [] s = "B" -> "b"
      [] OTHER -> s

Substrings(s) ==
    CASE s = "a1" -> {"a", "1", "a1"} [] s = "a2" -> {"a", "2", "a2"}
      [] s = "b1" -> {"b", "1", "b1"} [] s = "b2" -> {"b", "2", "b2"}
      [] OTHER -> {s}

RegExpTest(pattern, text) == LowerCase(pattern) \in Substrings(LowerCase(text))

\* filter of RecordService.findAll: a parameter that is given (a non-empty
\* text) adds its condition
RecordFilter(query, d) ==
    /\ query.artist # None => RegExpTest(query.artist, d.artist)
    /\ query.album # None => RegExpTest(query.album, d.album)
    /\ query.format # None => d.format = query.format
    /\ query.category # None => d.category = query.category
    /\ query.inStock # None => d.qty > 0
    /\ query.minPrice # Missing => d.price >= query.minPrice.num
    /\ query.maxPrice # Missing => d.price <= query.maxPrice.num

\* what RecordService.findAll(query) returns or throws on the stored records
RecordServiceFindAll(query) ==
    LET page == OrDefault(query.page, DefaultPage)
        limit == OrDefault(query.limit, DefaultLimit)
        sortBy == IF query.sortBy = None THEN "lastModified" ELSE query.sortBy
        sortOrder == IF query.sortOrder = None THEN "desc" ELSE query.sortOrder
        matching == { id \in RecordIds : records[id].live /\ RecordFilter(query, records[id]) }
        skip == Times(Minus(page, Num(1)), limit)
        total == Cardinality(matching)
    IN IF CursorRejects(skip, limit) THEN QueryError
       ELSE Ok([data |-> Window(Sorted(matching, records, sortBy, SortDirection(sortOrder)),
                                skip, limit),
                page |-> Number(page),
                limit |-> Number(limit),
                total |-> total,
                totalPages |-> CeilDiv(total, limit)])

\* what OrderService.findAll(query) returns or throws on the stored orders
OrderServiceFindAll(query) ==
    LET rawPage == OrDefault(query.page, DefaultPage)
        rawLimit == OrDefault(query.limit, DefaultLimit)
        sortBy == IF query.sortBy = None THEN "orderDate" ELSE query.sortBy
        sortOrder == IF query.sortOrder = None THEN "desc" ELSE query.sortOrder
        page == MathMax(Num(1), Number(rawPage))
        limit == MathMax(Num(1), MathMin(Num(MaxPageSize), Number(rawLimit)))
        skip == Times(Minus(page, Num(1)), limit)
        total == Len(orders)
    IN IF CursorRejects(skip, limit) THEN QueryError
       ELSE Ok([data |-> Window(Sorted(DOMAIN orders, orders, sortBy, SortDirection(sortOrder)),
                                skip, limit),
                page |-> page,
                limit |-> limit,
                total |-> total,
                totalPages |-> CeilDiv(total, limit)])

\* findAll of RecordService: the find and the countDocuments of its
\* Promise.all, and the return
RecordFindAll(p, query) ==
    /\ Begin(p, "RecordService.findAll", query)
    /\ Finish(p, RecordServiceFindAll(query))
    /\ rec' = [rec EXCEPT ![p] = NoRecord]
    /\ ClearLocals(p)
    /\ UNCHANGED <<store, ledger>>

\* findAll of OrderService
OrderFindAll(p, query) ==
    /\ Begin(p, "OrderService.findAll", query)
    /\ Finish(p, OrderServiceFindAll(query))
    /\ rec' = [rec EXCEPT ![p] = NoRecord]
    /\ ClearLocals(p)
    /\ UNCHANGED <<store, ledger>>

\* -------------------------------------------------------- specification
Next ==
    \/ \E p \in Procs, dto \in CreateOrderDtos : OrderCreate(p, dto)
    \/ \E p \in Procs : OrderInsert(p)
    \/ \E p \in Procs : OrderDecrement(p)
    \/ \E p \in Procs, dto \in CreateRecordDtos : RecordCreate(p, dto)
    \/ \E p \in Procs : CreateFetch(p)
    \/ \E p \in Procs : CreateSave(p)
    \/ \E p \in Procs, id \in RequestIds, dto \in UpdateRecordDtos : RecordUpdate(p, id, dto)
    \/ \E p \in Procs : UpdateCheck(p)
    \/ \E p \in Procs : UpdateFetch(p)
    \/ \E p \in Procs : UpdateWrite(p)
    \/ \E p \in Procs, id \in RequestIds : RecordDelete(p, id)
    \/ \E p \in Procs, id \in RequestIds : RecordFindById(p, id)
    \/ \E p \in Procs, id \in OrderRequestIds : OrderFindById(p, id)

Spec == Init /\ [][Next]_vars

\* ------------------------------------------ the enrichment specification
\* the longest track list a response carries
MaxTracks == 2

\* the track lists of a response: recordings with a title, and tracks whose
\* title cannot be read
TrackLists == UNION { [1..n -> {"T1", BadTrack}] : n \in 0..MaxTracks }

\* how much of the path medium-list, medium, track-list a release holds
Depths == 0..3

\* the documents that parse and hold a release: each of title, artist-credit
\* name, nested artist name and date present or not, the path to the tracks
\* whole or cut short
Documents ==
    { [kind |-> "doc", title |-> t, creditName |-> cn, creditArtist |-> ca,
       date |-> d, depth |-> dp, tracks |-> tr] :
        t \in {None, "B2"}, cn \in {None, "A2"}, ca \in {None, "A1"},
        d \in {None, "1969"}, dp \in Depths, tr \in TrackLists }

FetchResponses ==
    FailedResponses \cup { doc \in Documents : doc.depth < 3 => doc.tracks = <<>> }

EnrichmentNext ==
    \E p \in Procs, response \in FetchResponses : TestMusicBrainz(p, "m1", response)

EnrichmentSpec == Init /\ [][EnrichmentNext]_vars

\* --------------------------------------------- the listing specification
\* the largest page and limit a listing request asks for, next to the cap
MaxAsked == 2

Pages == {Missing, Text("abc")} \cup { Num(n) : n \in (0 - 1)..MaxAsked }
Limits == Pages \cup {Num(MaxPageSize), Num(MaxPageSize + 1)}
SortOrders == {None, "asc", "desc", "invalid"}
RecordSortBys == {None, "price", "invalidField"}
OrderSortBys == {None, "totalPrice", "invalidField"}

\* GET /records with no parameter
PlainRecordQuery ==
    [artist |-> None, album |-> None, format |-> None, category |-> None,
     minPrice |-> Missing, maxPrice |-> Missing, inStock |-> None,
     page |-> Missing, limit |-> Missing, sortBy |-> None, sortOrder |-> None]

\* the record listings served: every page with every limit, every sort on
\* whole and on one-element pages, filters on whole and one-element pages,
\* and every pair of price bounds
RecordQueries ==
    { [PlainRecordQuery EXCEPT !.page = pg, !.limit = lm] :
        pg \in Pages, lm \in Limits }
    \cup { [PlainRecordQuery EXCEPT !.sortBy = sb, !.sortOrder = so, !.limit = lm] :
             sb \in RecordSortBys, so \in SortOrders, lm \in {Missing, Num(1)} }
    \cup { [PlainRecordQuery EXCEPT !.artist = a, !.inStock = s, !.minPrice = mp,
                                    !.limit = lm] :
             a \in {None, "a1"}, s \in {None, "true", "false"},
             mp \in {Missing, Num(2)}, lm \in {Missing, Num(1)} }
    \cup { [PlainRecordQuery EXCEPT !.minPrice = mp, !.maxPrice = xp] :
             mp \in {Missing, Num(0), Num(2)}, xp \in {Missing, Num(0), Num(2)} }

\* GET /orders with no parameter
PlainOrderQuery ==
    [page |-> Missing, limit |-> Missing, sortBy |-> None, sortOrder |-> None]

OrderQueries ==
    { [PlainOrderQuery EXCEPT !.page = pg, !.limit = lm] :
        pg \in Pages, lm \in Limits }
    \cup { [PlainOrderQuery EXCEPT !.sortBy = sb, !.sortOrder = so, !.limit = lm] :
             sb \in OrderSortBys, so \in SortOrders, lm \in {Missing, Num(1)} }

\* the stores the listings run on: records with distinct triples, of which
\* the first was updated last and every second is out of stock; orders in
\* the order they were placed
ListingRecord(id) ==
    [live |-> TRUE, id |-> id,
     artist |-> IF id % 2 = 1 THEN "A1" ELSE "A2",
     album |-> IF id <= 2 THEN "B1" ELSE "B2",
     price |-> 1 + (id % 3),
     qty |-> IF id % 2 = 0 THEN 0 ELSE MaxStock,
     format |-> "Vinyl", category |-> "Rock", mbid |-> None, tracklist |-> <<>>,
     created |-> id,
     lastModified |-> IF id = 1 THEN MaxRequests + 1 ELSE id]

ListingOrder(i) ==
    [id |-> i, recordId |-> 1, quantity |-> 1 + (i % 2),
     totalPrice |-> 2 * (1 + (i % 2)), orderDate |-> i,
     customerName |-> "Sam Ru", customerEmail |-> "samru@gmail.com",
     shippingAddress |-> "123 Main St"]

ListingInit ==
    /\ \E S \in SUBSET RecordIds, n \in 0..MaxRequests :
        /\ S = {} \/ n = 0
        /\ records = [id \in RecordIds |-> IF id \in S THEN ListingRecord(id) ELSE NoRecord]
        /\ orders = [i \in 1..n |-> ListingOrder(i)]
    /\ nextRecordId = MaxRequests + 1
    /\ pc = [p \in Procs |-> "idle"]
    /\ op = [p \in Procs |-> "none"]
    /\ req = [p \in Procs |-> NoRequest]
    /\ rec = [p \in Procs |-> NoRecord]
    /\ mb = [p \in Procs |-> NoData]
    /\ totalPrice = [p \in Procs |-> 0]
    /\ order = [p \in Procs |-> NoData]
    /\ res = [p \in Procs |-> NoResult]
    /\ started = 0
    /\ solo = [p \in Procs |-> FALSE]
    /\ pre = [p \in Procs |-> 0]
    /\ enrich = [p \in Procs |-> "none"]
    /\ ledger = [id \in RecordIds |-> [qty |-> ListingRecord(id).qty, updated |-> FALSE]]

ListingNext ==
    \/ \E p \in Procs, query \in RecordQueries : RecordFindAll(p, query)
    \/ \E p \in Procs, query \in OrderQueries : OrderFindAll(p, query)
    \/ \E p \in Procs, id \in RequestIds : RecordFindById(p, id)
    \/ \E p \in Procs, id \in OrderRequestIds : OrderFindById(p, id)

ListingSpec == ListingInit /\ [][ListingNext]_vars



\* ---------------------------------------------------------------- claims
Done(p, m) == pc[p] = "done" /\ op[p] = m

Triple(r) == <<r.artist, r.album, r.format>>

\* the quantities of the first n persisted orders that reference record id
RECURSIVE OrderedQuantity(_, _)
OrderedQuantity(id, n) ==
    IF n = 0 THEN 0
    ELSE OrderedQuantity(id, n - 1)
         + (IF orders[n].recordId = id THEN orders[n].quantity ELSE 0)

\* an order creation for record id has found the record and has not returned
OrderInFlight(id) ==
    \E p \in Procs : /\ op[p] = "OrderService.create"
                     /\ Running(p)
                     /\ req[p].recordId = id

\* C1: an order creation of quantity q that found a live record with stock s
\* and ran with no concurrent request has, when it returns: for q <= s,
\* succeeded, persisted exactly one more order and left the stock at s - q;
\* for q > s, failed with "Insufficient stock", persisted no order and left
\* the stock at s.
C1_OrderCreateAlone ==
    \A p \in Procs :
        (Done(p, "OrderService.create") /\ solo[p] /\ rec[p].live) =>
            LET q == req[p].quantity
                s == rec[p].qty
                stock == records[req[p].recordId].qty
            IN IF q <= s
               THEN /\ res[p].kind = "ok"
                    /\ Len(orders) = pre[p] + 1
                    /\ orders[Len(orders)] = res[p].value
                    /\ stock = s - q
               ELSE /\ res[p] = BadRequestException("Insufficient stock")
                    /\ Len(orders) = pre[p]
                    /\ stock = s

\* a lone order creation that took the whole stock of its record
C1_Witness ==
    \E p \in Procs :
        /\ Done(p, "OrderService.create") /\ solo[p] /\ rec[p].live
        /\ req[p].quantity = rec[p].qty
        /\ res[p].kind = "ok"
        /\ records[req[p].recordId].qty = 0

\* C2: under every interleaving of order creations the stock of every live
\* record is non-negative.
C2_StockNonNegative ==
    \A id \in RecordIds : records[id].live => records[id].qty >= 0

\* C3: for a live record the catalog has not updated, once no order creation
\* for it is in flight, the stock is the stock it was created with minus the
\* quantities of all the orders persisted for it.
C3_NoLostDecrement ==
    \A id \in RecordIds :
        (records[id].live /\ ~ledger[id].updated /\ ~OrderInFlight(id)) =>
            records[id].qty = ledger[id].qty - OrderedQuantity(id, Len(orders))

\* two order creations for one record, the second begun while the first was
\* running, have both returned
C3_Witness ==
    \E id \in RecordIds :
        /\ records[id].live /\ ~ledger[id].updated /\ ~OrderInFlight(id)
        /\ \A p \in Procs : /\ Done(p, "OrderService.create")
                            /\ req[p].recordId = id
                            /\ res[p].kind = "ok"
                            /\ ~solo[p]
        /\ Len(orders) = 2

\* C4: no two live records share the triple (artist, album, format).
C4_UniqueTriple ==
    \A i, j \in RecordIds :
        (records[i].live /\ records[j].live /\ Triple(records[i]) = Triple(records[j]))
            => i = j

\* two records are live and the unique index has turned a write down
C4_Witness ==
    /\ \E i, j \in RecordIds : i # j /\ records[i].live /\ records[j].live
    /\ \E p \in Procs : pc[p] = "done" /\ res[p] = MongoServerError

\* C5: of two creates that carry the same triple and ran concurrently (each
\* began or ran while the other was in flight), at most one returns a record.
C5_RacingCreates ==
    \A p, q \in Procs :
        (/\ p # q
         /\ Done(p, "RecordService.create") /\ Done(q, "RecordService.create")
         /\ Triple(req[p]) = Triple(req[q])
         /\ ~solo[p] /\ ~solo[q])
            => ~(res[p].kind = "ok" /\ res[q].kind = "ok")

\* two creates with one triple both passed the pre-check; one saved its record,
\* the other was turned down at its write
C5_Witness ==
    \E p, q \in Procs :
        /\ p # q
        /\ Done(p, "RecordService.create") /\ Done(q, "RecordService.create")
        /\ Triple(req[p]) = Triple(req[q])
        /\ res[p].kind = "ok"
        /\ res[q] = MongoServerError


\* C6: a create whose triple is that of a live record returns "Record already
\* exists" at once, whatever its other fields, and writes nothing.
C6_DuplicateCreate ==
    [][\A p \in Procs, dto \in CreateRecordDtos :
         (/\ RecordCreate(p, dto)
          /\ \E id \in RecordIds : records[id].live /\ Triple(records[id]) = Triple(dto))
            => /\ pc'[p] = "done"
               /\ res'[p] = BadRequestException("Record already exists")
               /\ records' = records
               /\ nextRecordId' = nextRecordId]_vars

\* a create was refused as a duplicate of a live record that differs from it
\* in price, qty and external identifier
C6_Witness ==
    \E p \in Procs, id \in RecordIds :
        /\ Done(p, "RecordService.create")
        /\ res[p] = BadRequestException("Record already exists")
        /\ records[id].live /\ Triple(records[id]) = Triple(req[p])
        /\ records[id].price # req[p].price
        /\ records[id].qty # req[p].qty
        /\ records[id].mbid # req[p].mbid

\* the triple an update asks for, from the record it read
AskedTriple(p) ==
    LET dto == req[p].dto IN
    <<IF "artist" \in DOMAIN dto THEN dto.artist ELSE rec[p].artist,
      IF "album" \in DOMAIN dto THEN dto.album ELSE rec[p].album,
      IF "format" \in DOMAIN dto THEN dto.format ELSE rec[p].format>>

AskedTripleTaken(p) ==
    \E id \in RecordIds \ {req[p].id} :
        records[id].live /\ Triple(records[id]) = AskedTriple(p)

\* C7: an update whose input carries artist, album or format and whose
\* effective triple is held by another live record fails with the duplicate
\* BadRequestException and writes nothing: at its duplicate check in every
\* interleaving, and from begin to end when it runs alone.
C7_DuplicateUpdate ==
    [][\A p \in Procs :
         (/\ op[p] = "RecordService.update" /\ Running(p) /\ pc'[p] = "done"
          /\ DOMAIN req[p].dto \cap {"artist", "album", "format"} # {}
          /\ AskedTripleTaken(p)
          /\ (pc[p] = "update.check" \/ solo[p]))
            => /\ res'[p].kind = "BadRequestException"
               /\ res'[p].message = <<"A record with", AskedTriple(p)[1],
                                      AskedTriple(p)[2], AskedTriple(p)[3],
                                      "already exists">>
               /\ records' = records]_vars

\* an update that carried only the artist was refused, left its record as it
\* read it, and the triple met is the new artist with the stored album and format
C7_Witness ==
    \E p \in Procs :
        /\ Done(p, "RecordService.update") /\ solo[p]
        /\ DOMAIN req[p].dto = {"artist"}
        /\ res[p].kind = "BadRequestException"
        /\ records[req[p].id] = rec[p]
        /\ req[p].dto.artist # rec[p].artist
        /\ AskedTripleTaken(p)

\* C8: the order a request persisted has totalPrice = quantity x the price of
\* the record as the request read it for the stock check, whatever the
\* record's price has become since.
C8_TotalPrice ==
    \A p \in Procs :
        (op[p] = "OrderService.create" /\ order[p] # NoData) =>
            /\ order[p].totalPrice = req[p].quantity * rec[p].price
            /\ orders[order[p].id] = order[p]

\* an order of two units is persisted and the record's price was changed
\* after the order creation read it
C8_Witness ==
    \E p \in Procs :
        /\ op[p] = "OrderService.create" /\ order[p] # NoData
        /\ req[p].quantity = 2
        /\ records[req[p].recordId].live
        /\ records[req[p].recordId].price # rec[p].price

\* C9: an order creation that names no live record returns at once the
\* NotFoundException "Record with ID <id> not found" with the identifier it
\* was given, inserts no order and writes no record.
C9_RecordNotFound ==
    [][\A p \in Procs, dto \in CreateOrderDtos :
         (OrderCreate(p, dto) /\ ~records[dto.recordId].live)
            => /\ pc'[p] = "done"
               /\ res'[p].kind = "NotFoundException"
               /\ res'[p].message = <<"Record with ID", dto.recordId, "not found">>
               /\ orders' = orders
               /\ records' = records]_vars

\* an order creation named a record that had been deleted and was refused
C9_Witness ==
    \E p \in Procs :
        /\ Done(p, "OrderService.create")
        /\ res[p].kind = "NotFoundException"
        /\ res[p].message[2] = req[p].recordId
        /\ req[p].recordId < nextRecordId
        /\ ~records[req[p].recordId].live

\* C10 as claimed: an update that ran alone, carried a new external identifier
\* and whose enrichment call failed has succeeded, and the record's track list
\* is the one it had before.
C10_TracklistKept ==
    \A p \in Procs :
        (Done(p, "RecordService.update") /\ solo[p] /\ enrich[p] = "failed") =>
            /\ res[p].kind = "ok"
            /\ records[req[p].id].tracklist = rec[p].tracklist

\* C10 as amended: the failed enrichment does not fail the update (alone, it
\* succeeds), and the track list a successful such update writes and returns
\* is the empty list of the failed enrichment, not the list held before.
C10_TracklistCleared ==
    \A p \in Procs :
        (Done(p, "RecordService.update") /\ enrich[p] = "failed") =>
            /\ solo[p] => (res[p].kind = "ok" /\ records[req[p].id].tracklist = <<>>)
            /\ res[p].kind = "ok" => res[p].value.tracklist = <<>>
            /\ res[p].kind \in {"ok", "MongoServerError", "TypeError"}

\* a record that had tracks lost them to an update whose enrichment failed
C10_Witness ==
    \E p \in Procs :
        /\ Done(p, "RecordService.update") /\ solo[p] /\ enrich[p] = "failed"
        /\ res[p].kind = "ok"
        /\ rec[p].tracklist # <<>>
        /\ records[req[p].id].tracklist = <<>>

\* C11: a create that carries an external identifier and passed the duplicate
\* pre-check is never ended by its enrichment call, whatever the call came
\* back with; at its save, when no live record holds its triple, it succeeds
\* and stores the record it returns, and after a failed enrichment the stored
\* track list is the empty list.
C11_CreateDespiteEnrichment ==
    [][\A p \in Procs :
         (op[p] = "RecordService.create" /\ Running(p) /\ req[p].mbid # None) =>
            /\ (pc[p] = "create.fetch" /\ pc'[p] # "create.fetch")
                   => pc'[p] = "create.save"
            /\ (/\ pc[p] = "create.save" /\ pc'[p] = "done"
                /\ findOneTriple(req[p].artist, req[p].album, req[p].format, 0) = {})
                   => /\ res'[p].kind = "ok"
                      /\ records'[res'[p].value.id] = res'[p].value
                      /\ enrich[p] = "failed" => res'[p].value.tracklist = <<>>]_vars

\* a create with an external identifier whose enrichment failed has stored
\* its record with no tracks
C11_Witness ==
    \E p \in Procs :
        /\ Done(p, "RecordService.create") /\ req[p].mbid # None
        /\ enrich[p] = "failed"
        /\ res[p].kind = "ok"
        /\ records[res[p].value.id].live
        /\ records[res[p].value.id].tracklist = <<>>

\* this step is the arrival of a request, which takes slot p
Arrives(p) ==
    /\ started' = started + 1
    /\ ~Running(p)
    /\ \A q \in Procs : q < p => Running(q)

\* the fields of its input a create echoes
EchoedFields == {"artist", "album", "price", "qty", "format", "category", "mbid"}

\* C12: a create that succeeds returns a record under an identifier no record
\* was ever created with, whose artist, album, price, qty, format, category
\* and external identifier are those of the input and whose track list is
\* empty when the input had no external identifier; the record is stored as
\* returned, and a findById of a live record returns the stored record.
C12_CreateEchoes ==
    [][\A p \in Procs :
         /\ (/\ op[p] = "RecordService.create" /\ pc[p] = "create.save"
             /\ pc'[p] = "done" /\ res'[p].kind = "ok")
               => LET r == res'[p].value IN
                  /\ r.id \notin 1..(nextRecordId - 1)
                  /\ nextRecordId' = r.id + 1
                  /\ \A i \in RecordIds : records[i].live => records[i].id # r.id
                  /\ \A f \in EchoedFields : r[f] = req[p][f]
                  /\ req[p].mbid = None => r.tracklist = <<>>
                  /\ records'[r.id] = r
         /\ (/\ Arrives(p) /\ op'[p] = "RecordService.findById"
             /\ records[req'[p].id].live)
               => res'[p] = Ok(records[req'[p].id])]_vars

\* a create whose enrichment found another artist and album returned the
\* record with the artist and album of its input, and a findById that
\* followed returned that same record
C12_Witness ==
    \E p, q \in Procs :
        /\ Done(q, "RecordService.create") /\ res[q].kind = "ok"
        /\ enrich[q] = "fetched"
        /\ mb[q].artist # req[q].artist
        /\ res[q].value.artist = req[q].artist
        /\ Done(p, "RecordService.findById")
        /\ res[p] = res[q]

\* a response whose page is at least 1, whose limit is between 1 and the cap
\* and whose data has no more elements than limit
WithinPaginationBounds(r) ==
    /\ IsNum(r.page) /\ r.page.num >= 1
    /\ IsNum(r.limit) /\ r.limit.num >= 1 /\ r.limit.num <= MaxPageSize
    /\ Len(r.data) <= r.limit.num

\* C13: the record listing fails on no page and limit, negative, zero and
\* missing ones included, and its response has page >= 1, 1 <= limit <= 100
\* and at most limit elements of data.
C13_RecordPagination ==
    \A p \in Procs :
        Done(p, "RecordService.findAll") =>
            /\ res[p].kind = "ok"
            /\ WithinPaginationBounds(res[p].value)

\* C14: the order listing fails on no page and limit, negative, zero and
\* missing ones included, and its response has page >= 1, 1 <= limit <= 100
\* and at most limit elements of data.
C14_OrderPagination ==
    \A p \in Procs :
        Done(p, "OrderService.findAll") =>
            /\ res[p].kind = "ok"
            /\ WithinPaginationBounds(res[p].value)

\* a parameter that is missing or a numeral not above zero
MissingOrNonPositive(v) == v = Missing \/ (IsNum(v) /\ v.num <= 0)

\* C15: in both listings a missing or non-positive page is answered as page
\* 1 and a missing or non-positive limit as limit 10, and the response echoes
\* these.
C15_PaginationDefaults ==
    \A p \in Procs :
        (Done(p, "RecordService.findAll") \/ Done(p, "OrderService.findAll")) =>
            /\ MissingOrNonPositive(req[p].page) =>
                   (res[p].kind = "ok" /\ res[p].value.page = Num(DefaultPage))
            /\ MissingOrNonPositive(req[p].limit) =>
                   (res[p].kind = "ok" /\ res[p].value.limit = Num(DefaultLimit))

\* tp is the least integer not below total / limit
IsCeilOfQuotient(tp, total, limit) ==
    IF limit > 0 THEN (tp - 1) * limit < total /\ total <= tp * limit
    ELSE limit < 0 /\ (tp - 1) * limit > total /\ total >= tp * limit

\* C16: in every response of the record listing and of the order listing,
\* totalPages is ceil(total / limit) for the total and the limit of the
\* response, total is the number of elements that match, and totalPages is 0
\* exactly when nothing matches.
C16_TotalPages ==
    \A p \in Procs :
        ((Done(p, "RecordService.findAll") \/ Done(p, "OrderService.findAll"))
         /\ res[p].kind = "ok") =>
            LET r == res[p].value IN
            /\ r.total = IF op[p] = "OrderService.findAll" THEN Len(orders)
                         ELSE Cardinality({ id \in RecordIds :
                                  records[id].live /\ RecordFilter(req[p], records[id]) })
            /\ IsNum(r.totalPages) /\ IsNum(r.limit)
            /\ IsCeilOfQuotient(r.totalPages.num, r.total, r.limit.num)
            /\ r.totalPages.num = 0 <=> r.total = 0

ReadOperations ==
    {"RecordService.findAll", "RecordService.findById",
     "OrderService.findAll", "OrderService.findById"}

\* what the request that slot p has served would return if it ran again now
Repeated(p) ==
    CASE op[p] = "RecordService.findAll" -> RecordServiceFindAll(req[p])
      [] op[p] = "OrderService.findAll" -> OrderServiceFindAll(req[p])
      [] op[p] = "RecordService.findById" ->
            IF Live(req[p].id) THEN Ok(records[req[p].id])
            ELSE NotFoundException("Record not found")
      [] op[p] = "OrderService.findById" ->
            IF req[p].id \in DOMAIN orders THEN Ok(orders[req[p].id])
            ELSE NotFoundException("Order not found")

Elements(seq) == { seq[i] : i \in DOMAIN seq }

C19_Delete ==
    [][\A p \in Procs :
         /\ (Arrives(p) /\ op'[p] = "RecordService.delete") =>
                /\ pc'[p] = "done"
                /\ orders' = orders
                /\ IF records[req'[p].id].live
                   THEN /\ res'[p] = Ok(None)
                        /\ records' = [records EXCEPT ![req'[p].id] = NoRecord]
                   ELSE /\ res'[p] = NotFoundException("Record not found")
                        /\ records' = records
         /\ (/\ Arrives(p)
             /\ op'[p] \in {"RecordService.findById", "RecordService.update",
                             "RecordService.delete"}
             /\ ~records[req'[p].id].live) =>
                /\ pc'[p] = "done"
                /\ res'[p] = NotFoundException("Record not found")
         /\ \A id \in RecordIds :
                (id < nextRecordId /\ ~records[id].live) => ~records'[id].live]_vars

\* a record was deleted, and a second delete of it was refused
C19_Witness ==
    \E p \in Procs :
        /\ Done(p, "RecordService.delete")
        /\ res[p] = NotFoundException("Record not found")
        /\ req[p].id < nextRecordId
        /\ ~records[req[p].id].live

\* C20: no step modifies or removes a persisted order: every order stays
\* where it is with the recordId, quantity, totalPrice, orderDate and
\* customer fields it was persisted with, whatever happens to the record it
\* names; and a findById of a persisted order returns it.
C20_OrdersImmutable ==
    [][/\ \A i \in DOMAIN orders : i \in DOMAIN orders' /\ orders'[i] = orders[i]
       /\ \A p \in Procs :
             (/\ Arrives(p) /\ op'[p] = "OrderService.findById"
              /\ req'[p].id \in DOMAIN orders) =>
                 res'[p] = Ok(orders[req'[p].id])]_vars

\* an order is persisted as its request wrote it, and the record it names
\* has been deleted since
C20_Witness ==
    \E p \in Procs :
        /\ op[p] = "OrderService.create" /\ order[p] # NoData
        /\ orders[order[p].id] = order[p]
        /\ req[p].recordId < nextRecordId
        /\ ~records[req[p].recordId].live

NoMetadata(r) ==
    r.artist = None /\ r.album = None /\ r.releaseDate = None

\* the document of the response holds a release with its title, an artist,
\* its date and the whole path to its tracks
WholeDocument(response) ==
    /\ response.kind = "doc"
    /\ response.title # None /\ response.date # None
    /\ response.creditName # None \/ response.creditArtist # None
    /\ response.depth = 3

\* C22 as claimed: the fetch returns a result for every outcome of the
\* outbound request, and unless the response is a whole document the result
\* has an empty track list and no artist, album or release date.
C22_FetchEmptyOnIncomplete ==
    \A p \in Procs :
        Done(p, "RecordService.testMusicBrainzIntegration") =>
            /\ res[p].kind = "ok" /\ res[p].value.success
            /\ ~WholeDocument(req[p].response) =>
                   (res[p].value.tracks = <<>> /\ NoMetadata(res[p].value))

\* C22 as amended: the fetch returns a result for every outcome of the
\* outbound request.  On a network error, a timeout, a non-success response,
\* an empty body, a document that does not parse or holds no metadata or no
\* release, the result has an empty track list and no artist, album or
\* release date.  On a document with a release the result holds what the
\* release holds: its title, the artist by the first path that has one, its
\* date, and one title per track (or "Unknown Track") when the path to the
\* tracks is whole, no track otherwise.
C22_FetchDegrades ==
    \A p \in Procs :
        Done(p, "RecordService.testMusicBrainzIntegration") =>
            LET response == req[p].response
                r == res[p].value
            IN /\ res[p].kind = "ok" /\ r.success
               /\ r.count = Len(r.tracks)
               /\ IF response.kind # "doc"
                  THEN r.tracks = <<>> /\ NoMetadata(r)
                  ELSE /\ r.album = response.title
                       /\ r.releaseDate = response.date
                       /\ r.artist = IF response.creditName # None
                                     THEN response.creditName ELSE response.creditArtist
                       /\ Len(r.tracks) = IF response.depth = 3
                                          THEN Len(response.tracks) ELSE 0
                       /\ \A i \in DOMAIN r.tracks :
                              r.tracks[i] = IF response.tracks[i] = BadTrack
                                            THEN "Unknown Track" ELSE response.tracks[i]

\* a document whose release has a title and an artist but no medium-list
\* came back as that album and artist with no track
C22_Witness ==
    \E p \in Procs :
        /\ Done(p, "RecordService.testMusicBrainzIntegration")
        /\ req[p].response.kind = "doc" /\ req[p].response.depth = 0
        /\ res[p].value.album = "B2" /\ res[p].value.artist = "A1"
        /\ res[p].value.tracks = <<>>

\* C23: every request that has ended has returned a value or failed with one
\* of the typed failures, a NotFoundException or a BadRequestException.
C23_TypedFailures ==
    \A p \in Procs :
        pc[p] = "done" =>
            res[p].kind \in {"ok", "NotFoundException", "BadRequestException"}

\* the quantities of the order creations that have inserted their order for
\* record id and have not yet decremented its stock
RECURSIVE PendingQuantity(_, _)
PendingQuantity(id, S) ==
    IF S = {} THEN 0
    ELSE LET p == CHOOSE q \in S : TRUE
         IN (IF pc[p] = "order.decrement" /\ req[p].recordId = id
             THEN req[p].quantity ELSE 0)
            + PendingQuantity(id, S \ {p})

\* C24: an order creation inserts its order before it decrements the stock:
\* a request about to decrement has its order persisted, and the stock of a
\* live record the catalog has not updated is what it was created with minus
\* the persisted orders for it, the orders whose decrement is still to come
\* not subtracted; so the stock is never decremented beyond the persisted
\* orders.
C24_InsertBeforeDecrement ==
    /\ \A p \in Procs :
          pc[p] = "order.decrement" =>
              (order[p].id \in DOMAIN orders /\ orders[order[p].id] = order[p])
    /\ \A id \in RecordIds :
          (records[id].live /\ ~ledger[id].updated) =>
              /\ records[id].qty = ledger[id].qty - OrderedQuantity(id, Len(orders))
                                      + PendingQuantity(id, Procs)
              /\ ledger[id].qty - records[id].qty <= OrderedQuantity(id, Len(orders))

\* an order creation stands between its two steps: its order is persisted
\* and the stock of its record is still what the record was created with
C24_Witness ==
    \E p \in Procs :
        /\ pc[p] = "order.decrement"
        /\ orders[order[p].id] = order[p]
        /\ records[req[p].recordId].live
        /\ ~ledger[req[p].recordId].updated
        /\ records[req[p].recordId].qty = ledger[req[p].recordId].qty

\* the request of p has called the enrichment client
Enriched(p) == mb[p] # NoData \/ enrich[p] # "none"

ClaimedFilter(query, d) ==
    /\ query.artist # None => RegExpTest(query.artist, d.artist)
    /\ query.album # None => RegExpTest(query.album, d.album)
    /\ query.format # None => d.format = query.format
    /\ query.category # None => d.category = query.category
    /\ query.inStock = "true" => d.qty > 0
    /\ query.minPrice # Missing => d.price >= query.minPrice.num
    /\ query.maxPrice # Missing => d.price <= query.maxPrice.num

\* C26: a record listing counts in total exactly the live records that meet
\* every filter given (price within [minPrice, maxPrice], a bound of 0
\* included; format and category as given; qty > 0 exactly when inStock is
\* true, so not when it is the text "false" or absent), returns only such
\* records, and returns all of them when the page holds them all.
C26_FiltersExact ==
    \A p \in Procs :
        (Done(p, "RecordService.findAll") /\ res[p].kind = "ok") =>
            LET claimed == { records[id] : id \in
                               { i \in RecordIds : records[i].live
                                                   /\ ClaimedFilter(req[p], records[i]) } }
                r == res[p].value
            IN /\ r.total = Cardinality(claimed)
               /\ Elements(r.data) \subseteq claimed
               /\ Len(r.data) = r.total => Elements(r.data) = claimed

\* C27: the deleteOne of a delete is one step of the store, so two deletes of
\* one live record reach the store one after the other, whatever else runs
\* meanwhile: a delete succeeds exactly when the record is live at its step,
\* and fails with "Record not found" otherwise; after its step the record is
\* not live, and a record that is gone stays gone.  So the first of the two
\* succeeds and the second fails.
C27_DeleteOnce ==
    [][/\ \A p \in Procs :
             (Arrives(p) /\ op'[p] = "RecordService.delete") =>
                 /\ pc'[p] = "done"
                 /\ res'[p] \in {Ok(None), NotFoundException("Record not found")}
                 /\ res'[p] = Ok(None) <=> records[req'[p].id].live
                 /\ ~records'[req'[p].id].live
       /\ \A id \in RecordIds :
             (records[id].live /\ ~records'[id].live) =>
                 \E p \in Procs : /\ Arrives(p) /\ op'[p] = "RecordService.delete"
                                  /\ req'[p].id = id /\ res'[p] = Ok(None)
       /\ \A id \in RecordIds :
             (~records[id].live /\ records'[id].live) => id = nextRecordId]_vars

\* three requests: a record was created, a delete removed it, and the other
\* delete of the same record was refused
C27_Witness ==
    \E p \in Procs :
        /\ started = 3 /\ nextRecordId = 2
        /\ ~records[1].live
        /\ Done(p, "RecordService.delete") /\ req[p].id = 1
        /\ res[p] = NotFoundException("Record not found")

\* C28: the write of a successful update changes, in the record it names, only
\* the fields its input carries, the last-modified timestamp and, when the
\* input's external identifier differs from the one the update read, the
\* track list; artist and album that the input omits are kept whatever the
\* enrichment returned, the creation timestamp is kept, and no other record
\* changes.
C28_UpdateFrame ==
    [][\A p \in Procs :
         (pc[p] = "update.write" /\ pc'[p] = "done" /\ res'[p].kind = "ok") =>
             LET id == req[p].id
                 dto == req[p].dto
                 may == DOMAIN dto \cup {"lastModified"}
                        \cup (IF MbidChanged(dto, rec[p]) THEN {"tracklist"} ELSE {})
             IN /\ \A f \in DOMAIN records[id] \ may : records'[id][f] = records[id][f]
                /\ records'[id].created = records[id].created
                /\ \A other \in RecordIds \ {id} : records'[other] = records[other]]_vars

\* C29: the write of an update whose input does not change the external
\* identifier leaves the stored track list as it is; and when such an update
\* and an update of the same record that fetched an enriched track list have
\* both succeeded, the record holds the enriched track list.
C29_TracklistSurvives ==
    /\ [][\A p \in Procs :
             (/\ pc[p] = "update.write" /\ pc'[p] = "done" /\ res'[p].kind = "ok"
              /\ ~MbidChanged(req[p].dto, rec[p])) =>
                 records'[req[p].id].tracklist = records[req[p].id].tracklist]_vars
    /\ [](\A p, q \in Procs :
             (/\ Done(p, "RecordService.update") /\ res[p].kind = "ok"
              /\ Done(q, "RecordService.update") /\ res[q].kind = "ok"
              /\ req[p].id = req[q].id
              /\ ~MbidChanged(req[p].dto, rec[p])
              /\ enrich[q] = "fetched") =>
                 records[req[q].id].tracklist = mb[q].tracklist)

\* C30: an order is inserted only against a record that is live at the
\* insertion, and an order creation that reports success has decremented the
\* stock of a live record: the record it names is live at its decrement.
C30_OrdersReferenceLiveRecords ==
    [][\A p \in Procs :
         /\ (pc[p] = "order.insert" /\ Len(orders') = Len(orders) + 1) =>
                records[req[p].recordId].live
         /\ (pc[p] = "order.decrement" /\ pc'[p] = "done" /\ res'[p].kind = "ok") =>
                /\ records[req[p].recordId].live
                /\ records'[req[p].recordId].qty =
                       records[req[p].recordId].qty - req[p].quantity]_vars

====
